---- MODULE Spec2Model ----
(***************************************************************************)
(* A model of dollop's BatchInterpreter (src/dollop.py): the step-wise     *)
(* evaluation engine with its explicit call stack, the chained             *)
(* environments, the special forms, the built-in functions and call/cc.    *)
(*                                                                         *)
(* Python objects are modelled as tagged records [t |-> tag, v |-> data].  *)
(* Environment objects live in a heap (the sequence envs) and are referred *)
(* to by index, because frames and closures share them by reference and    *)
(* copy.deepcopy duplicates them.                                          *)
(***************************************************************************)
EXTENDS Integers, Sequences, FiniteSets, TLC

(* ----------------------------- values ---------------------------------- *)

Int_(n)  == [t |-> "int",  v |-> n]
Bool_(b) == [t |-> "bool", v |-> b]
Sym(s)   == [t |-> "sym",  v |-> s]
List_(q) == [t |-> "list", v |-> q]
Fn(name) == [t |-> "fn",   v |-> name]
Cont(id) == [t |-> "cont", v |-> id]
Lambda(params, body, env) ==
    [t |-> "lam", v |-> [params |-> params, body |-> body, env |-> env]]

None        == [t |-> "none", v |-> 0]
PLACEHOLDER == [t |-> "ph", v |-> 0]

SPECIAL_FORMS == {"begin", "define", "if", "lambda"}

\* expr[0] in SPECIAL_FORMS: only a str can be equal to one of the names
InSpecialForms(x) == x.t = "sym" /\ x.v \in SPECIAL_FORMS

\* Python truthiness, as used by "if expr[1]:"
Truthy(x) ==
    CASE x.t = "bool" -> x.v
      [] x.t = "int"  -> x.v # 0
      [] x.t = "list" -> x.v # <<>>
      [] OTHER        -> TRUE

IsNum(x) == x.t \in {"int", "bool"}
NumOf(x) == IF x.t = "bool" THEN (IF x.v THEN 1 ELSE 0) ELSE x.v

(* --------------------------- environments ------------------------------ *)

\* Environment.__init__
Environment(parent) == [data |-> [n \in {} |-> None], parent |-> parent]

\* Environment.bind, on the heap cell e
EnvBind(heap, e, name, value) ==
    [heap EXCEPT ![e].data =
        [n \in DOMAIN heap[e].data \cup {name} |->
            IF n = name THEN value ELSE heap[e].data[n]]]

\* Environment.get: the value, or None for the NameError
RECURSIVE EnvGet(_, _, _)
EnvGet(heap, e, name) ==
    IF name \in DOMAIN heap[e].data
    THEN heap[e].data[name]
    ELSE IF heap[e].parent # 0
         THEN EnvGet(heap, heap[e].parent, name)
         ELSE None

\* Frame.__init__
Frame(expr, env) == [expr |-> expr, env |-> env, done |-> FALSE]

(* ------------------------- sequence helpers ---------------------------- *)

\* Python positions are 0-based: q[p] is At(q, p)
At(q, p)        == q[p + 1]
SetAt(q, p, x)  == [q EXCEPT ![p + 1] = x]
Last(q)         == q[Len(q)]
Rest(q)         == SubSeq(q, 2, Len(q))
\* list.index(x): the first position holding x
Index(q, x)     == CHOOSE p \in 0..(Len(q) - 1) :
                      /\ q[p + 1] = x
                      /\ \A r \in 0..(p - 1) : q[r + 1] # x
Pop(stk)        == SubSeq(stk, 1, Len(stk) - 1)
Top(stk)        == stk[Len(stk)]
ReplaceTop_Push(stk, frame) == Append(stk, frame)

\* "self._call_stack.pop(); self._call_stack.append(new_frame)"
ReplaceTop(stk, frame) == Append(Pop(stk), frame)

(* ------------------------------ errors --------------------------------- *)

Err(kind) == [t |-> "err", v |-> kind]
IsErr(x)  == x.t = "err"

(* ---------------------------- copy.deepcopy ---------------------------- *)

\* the Environment objects a value refers to (functions are copied
\* atomically by deepcopy, so a continuation function refers to none)
RECURSIVE EnvsOfVal(_)
EnvsOfVal(x) ==
    CASE x.t = "lam"  -> {x.v.env}
      [] x.t = "list" -> UNION {EnvsOfVal(x.v[i]) : i \in DOMAIN x.v}
      [] OTHER        -> {}

\* every Environment reachable from the set R, through _parent and _data
RECURSIVE ReachEnvs(_, _)
ReachEnvs(heap, R) ==
    LET parents == {heap[e].parent : e \in R} \ {0}
        inData  == UNION {UNION {EnvsOfVal(heap[e].data[n]) :
                                    n \in DOMAIN heap[e].data} : e \in R}
        N       == R \cup parents \cup inData
    IN  IF N = R THEN R ELSE ReachEnvs(heap, N)

\* the heap index of the copy of Environment e, when the set R is copied
\* onto the end of a heap of length base
CopyOf(e, R, base) == base + Cardinality({r \in R : r <= e})

RECURSIVE CopyVal(_, _, _)
CopyVal(x, R, base) ==
    CASE x.t = "lam"  -> Lambda(x.v.params, x.v.body, CopyOf(x.v.env, R, base))
      [] x.t = "list" -> List_([i \in DOMAIN x.v |-> CopyVal(x.v[i], R, base)])
      [] OTHER        -> x

\* copy.deepcopy(stack): the frames, their expression trees and every
\* Environment they reach are duplicated; sharing inside the copy is kept
DeepCopyStack(stk, heap) ==
    LET roots == UNION {{stk[i].env} \cup EnvsOfVal(stk[i].expr) : i \in DOMAIN stk}
        R     == ReachEnvs(heap, roots)
        base  == Len(heap)
        orig(j) == CHOOSE e \in R : CopyOf(e, R, base) = base + j
        cell(e) == [data   |-> [n \in DOMAIN heap[e].data |->
                                   CopyVal(heap[e].data[n], R, base)],
                    parent |-> IF heap[e].parent = 0 THEN 0
                               ELSE CopyOf(heap[e].parent, R, base)]
    IN  [stack |-> [i \in DOMAIN stk |->
                      [expr |-> CopyVal(stk[i].expr, R, base),
                       env  |-> CopyOf(stk[i].env, R, base),
                       done |-> stk[i].done]],
         envs  |-> heap \o [j \in 1..Cardinality(R) |-> cell(orig(j))]]

(* ------------------------- built-in functions -------------------------- *)

RECURSIVE PyEq(_, _)
\* Python's ==: numbers (bool is an int) by value, lists element by element,
\* everything else by identity (a function by its name, a continuation by
\* its id; closures are compared by content, the scripts compare none)
PyEq(x, y) ==
    CASE IsNum(x) /\ IsNum(y) -> NumOf(x) = NumOf(y)
      [] x.t = "list" /\ y.t = "list" ->
            /\ Len(x.v) = Len(y.v)
            /\ \A i \in DOMAIN x.v : PyEq(x.v[i], y.v[i])
      [] OTHER -> x.t = y.t /\ x = y

RECURSIVE Repeat(_, _)
Repeat(q, n) == IF n <= 0 THEN <<>> ELSE q \o Repeat(q, n - 1)

\* lambda x, y: x+y (numbers add, lists concatenate)
Add(x, y) ==
    IF IsNum(x) /\ IsNum(y) THEN Int_(NumOf(x) + NumOf(y))
    ELSE IF x.t = "list" /\ y.t = "list" THEN List_(x.v \o y.v)
    ELSE Err("TypeError")

Sub_Swapped(x, y) ==
    IF IsNum(x) /\ IsNum(y) THEN Int_(NumOf(y) - NumOf(x)) ELSE Err("TypeError")

\* lambda x, y: x-y
Sub(x, y) ==
    IF IsNum(x) /\ IsNum(y) THEN Int_(NumOf(x) - NumOf(y)) ELSE Err("TypeError")

Mul_AsAdd(x, y) ==
    IF IsNum(x) /\ IsNum(y) THEN Int_(NumOf(x) + NumOf(y))
    ELSE IF x.t = "list" /\ IsNum(y) THEN List_(Repeat(x.v, NumOf(y)))
    ELSE IF IsNum(x) /\ y.t = "list" THEN List_(Repeat(y.v, NumOf(x)))
    ELSE Err("TypeError")

\* lambda x, y: x*y (numbers multiply, a list is repeated)
Mul(x, y) ==
    IF IsNum(x) /\ IsNum(y) THEN Int_(NumOf(x) * NumOf(y))
    ELSE IF x.t = "list" /\ IsNum(y) THEN List_(Repeat(x.v, NumOf(y)))
    ELSE IF IsNum(x) /\ y.t = "list" THEN List_(Repeat(y.v, NumOf(x)))
    ELSE Err("TypeError")

\* _apply, f(*args), for the functions bound by _create_toplevel_env other
\* than call/cc; a wrong number of arguments is a TypeError
BuiltinApply(name, args) ==
    CASE name = "list" -> List_(args)
      [] name \in {"+", "-", "*", "="} /\ Len(args) # 2 -> Err("TypeError")
      [] name = "=" -> Bool_(PyEq(args[1], args[2]))
      [] name = "+" -> Add(args[1], args[2])
      [] name = "-" -> Sub(args[1], args[2])
      [] name = "*" -> Mul(args[1], args[2])
      [] OTHER -> Err("TypeError")

\* BatchInterpreter._create_toplevel_env
Builtins == {"+", "-", "*", "=", "list", "call/cc"}
ToplevelEnv ==
    [data   |-> [n \in Builtins \cup {"magic"} |->
                    IF n = "magic" THEN Int_(42) ELSE Fn(n)],
     parent |-> 0]

\* self._env: the heap index of the top-level Environment
TopEnv == 1

(* --------------------------- special forms ----------------------------- *)

SfNextBegin_NoTCO(expr, plpos) == IF plpos < Len(expr) THEN plpos ELSE -1

\* sf_next, begin: the last expression is not evaluated yet (TCO)
SfNextBegin(expr, plpos) == IF plpos < Len(expr) - 1 THEN plpos ELSE -1

SfNextIf_AllSlots(expr, plpos) == IF plpos < Len(expr) THEN plpos ELSE -1

\* sf_next, if: only the condition
SfNextIf(expr, plpos) == IF plpos < 2 THEN 1 ELSE -1

\* sf_next, define: only the value
SfNextDefine(expr, plpos) == IF plpos < 2 THEN 2 ELSE -1

SfNext_EvalLambdaBody(expr, plpos) ==
    LET spname == expr[1].v
    IN  CASE spname = "begin"  -> SfNextBegin(expr, plpos)
          [] spname = "if"     -> SfNextIf(expr, plpos)
          [] spname = "define" -> SfNextDefine(expr, plpos)
          [] spname = "lambda" -> IF plpos < 3 THEN 2 ELSE -1

\* sf_next: the position of the next element to be evaluated, -1 when done
\* (expr is the list's sequence of elements, plpos a 0-based position)
SfNext(expr, plpos) ==
    LET spname == expr[1].v
    IN  CASE spname = "begin"  -> SfNextBegin(expr, plpos)
          [] spname = "if"     -> SfNextIf(expr, plpos)
          [] spname = "define" -> SfNextDefine(expr, plpos)
          [] spname = "lambda" -> -1

\* what sf_apply returns: [result, done], with the heap it leaves and the
\* exception it raised, if any
SfOk(result, done, heap) == [result |-> result, done |-> done, envs |-> heap, err |-> ""]
SfFail(kind, heap)       == [result |-> None, done |-> FALSE, envs |-> heap, err |-> kind]

\* sf_apply, define
SfApplyDefine(expr, env, heap) ==
    IF Len(expr) < 3 THEN SfFail("IndexError", heap)
    ELSE SfOk(Bool_(FALSE), TRUE, EnvBind(heap, env, At(expr, 1).v, At(expr, 2)))

\* sf_apply, if
SfApplyIf(expr, env, heap) ==
    IF Len(expr) < 2 THEN SfFail("IndexError", heap)
    ELSE IF Truthy(At(expr, 1))
         THEN IF Len(expr) < 3 THEN SfFail("IndexError", heap)
              ELSE SfOk(At(expr, 2), FALSE, heap)
         ELSE IF Len(expr) < 4 THEN SfFail("IndexError", heap)
              ELSE SfOk(At(expr, 3), FALSE, heap)

SfApplyLambda_ByValue(expr, env, heap) ==
    IF Len(expr) < 3 THEN SfFail("IndexError", heap)
    ELSE SfOk(Lambda(At(expr, 1), At(expr, 2), Len(heap) + 1), TRUE,
              Append(heap, heap[env]))

\* sf_apply, lambda: the closure refers to the environment of the frame
SfApplyLambda(expr, env, heap) ==
    IF Len(expr) < 3 THEN SfFail("IndexError", heap)
    ELSE SfOk(Lambda(At(expr, 1), At(expr, 2), env), TRUE, heap)

\* sf_apply
SfApply(expr, env, heap) ==
    LET spname == expr[1].v
    IN  CASE spname = "begin"  -> SfOk(Last(expr), FALSE, heap)
          [] spname = "define" -> SfApplyDefine(expr, env, heap)
          [] spname = "if"     -> SfApplyIf(expr, env, heap)
          [] spname = "lambda" -> SfApplyLambda(expr, env, heap)

(* ------------------------------ the engine ----------------------------- *)

\* The interpreter state a step works on is the record
\* [stack, envs, conts, ret, err]: the call stack, the Environment heap, the
\* Continuation objects, the value run() returns and the exception raised.

Raise(m, kind) == [m EXCEPT !.err = kind]

PushSlot_NoPlaceholder(m, stk, plpos, env) ==
    LET expr == Top(stk).expr.v
    IN  IF plpos >= Len(expr) THEN Raise(m, "IndexError")
        ELSE [m EXCEPT !.stack = Append(stk, Frame(At(expr, plpos), env))]

\* "subexpr = expr[plpos]; expr[plpos] = PLACEHOLDER; push Frame(subexpr, env)"
\* on the frame on top of stk
PushSlot(m, stk, plpos, env) ==
    LET expr == Top(stk).expr.v
    IN  IF plpos >= Len(expr) THEN Raise(m, "IndexError")
        ELSE [m EXCEPT !.stack =
                Append([stk EXCEPT ![Len(stk)].expr =
                            List_(SetAt(expr, plpos, PLACEHOLDER))],
                       Frame(At(expr, plpos), env))]

Collapse_DoneEarly(m, x) ==
    IF Len(m.stack) = 1
    THEN [m EXCEPT !.ret = x]
    ELSE LET parent_frame == Top(m.stack)
             stk          == Pop(m.stack)
             plpos        == Index(Top(stk).expr.v, PLACEHOLDER)
             parent_expr  == SetAt(Top(stk).expr.v, plpos, x)
             filled       == [stk EXCEPT ![Len(stk)].expr = List_(parent_expr)]
             next         == IF InSpecialForms(parent_expr[1])
                             THEN SfNext(parent_expr, plpos + 1)
                             ELSE IF Len(parent_expr) = plpos + 2
                                  THEN -1 ELSE plpos + 1
         IN  IF next = -1
             THEN [m EXCEPT !.stack = [filled EXCEPT ![Len(stk)].done = TRUE]]
             ELSE PushSlot(m, filled, next, parent_frame.env)

Collapse_NoWriteBack(m, x) ==
    IF Len(m.stack) = 1
    THEN [m EXCEPT !.ret = x]
    ELSE LET parent_frame == Top(m.stack)
             stk          == Pop(m.stack)
             plpos        == Index(Top(stk).expr.v, PLACEHOLDER)
             parent_expr  == SetAt(Top(stk).expr.v, plpos, x)
             filled       == [stk EXCEPT ![Len(stk)].expr = List_(parent_expr)]
             next         == IF InSpecialForms(parent_expr[1])
                             THEN SfNext(parent_expr, plpos + 1)
                             ELSE IF Len(parent_expr) = plpos + 1
                                  THEN -1 ELSE plpos + 1
         IN  IF next = -1
             THEN [m EXCEPT !.stack = [stk EXCEPT ![Len(stk)].done = TRUE]]
             ELSE PushSlot(m, filled, next, parent_frame.env)

\* BatchInterpreter._collapse
Collapse(m, x) ==
    IF Len(m.stack) = 1
    THEN [m EXCEPT !.ret = x]
    ELSE LET parent_frame == Top(m.stack)      \* the frame that is popped
             stk          == Pop(m.stack)
             plpos        == Index(Top(stk).expr.v, PLACEHOLDER)
             parent_expr  == SetAt(Top(stk).expr.v, plpos, x)
             filled       == [stk EXCEPT ![Len(stk)].expr = List_(parent_expr)]
             next         == IF InSpecialForms(parent_expr[1])
                             THEN SfNext(parent_expr, plpos + 1)
                             ELSE IF Len(parent_expr) = plpos + 1
                                  THEN -1 ELSE plpos + 1
         IN  IF next = -1
             THEN [m EXCEPT !.stack = [filled EXCEPT ![Len(stk)].done = TRUE]]
             ELSE PushSlot(m, filled, next, parent_frame.env)

\* run(), done frame, special form (lines 271-279)
RunSpecialForm(m) ==
    LET frame == Top(m.stack)
        r     == SfApply(frame.expr.v, frame.env, m.envs)
    IN  IF r.err # "" THEN Raise(m, r.err)
        ELSE IF r.done
             THEN Collapse([m EXCEPT !.envs = r.envs], r.result)
             ELSE [m EXCEPT !.stack = ReplaceTop(m.stack, Frame(r.result, frame.env))]

RunLambda_NoAssert(m) ==
    LET expr   == Top(m.stack).expr.v
        f      == expr[1].v
        args   == Rest(expr)
        newenv == Len(m.envs) + 1
        both   == DOMAIN f.params.v \cap DOMAIN args
        cell   == [data   |-> [n \in {f.params.v[i].v : i \in both} |->
                                 LET i == CHOOSE j \in both :
                                            /\ f.params.v[j].v = n
                                            /\ \A k \in both :
                                                  f.params.v[k].v = n => k <= j
                                 IN  args[i]],
                       parent |-> f.env]
    IN  [m EXCEPT !.envs  = Append(m.envs, cell),
                  !.stack = ReplaceTop(m.stack, Frame(f.body, newenv))]

\* run(), done frame, closure call (lines 280-294)
RunLambda(m) ==
    LET expr   == Top(m.stack).expr.v
        f      == expr[1].v
        args   == Rest(expr)
        newenv == Len(m.envs) + 1
        cell   == [data   |-> [n \in {f.params.v[i].v : i \in DOMAIN f.params.v} |->
                                 LET i == CHOOSE j \in DOMAIN f.params.v :
                                            /\ f.params.v[j].v = n
                                            /\ \A k \in DOMAIN f.params.v :
                                                  f.params.v[k].v = n => k <= j
                                 IN  args[i]],
                       parent |-> f.env]
    IN  IF Len(args) # Len(f.params.v) THEN Raise(m, "AssertionError")
        ELSE [m EXCEPT !.envs  = Append(m.envs, cell),
                       !.stack = ReplaceTop(m.stack, Frame(f.body, newenv))]

\* BatchInterpreter._call_cc
call_cc(m, f) ==
    IF f.t # "lam" THEN Raise(m, "AssertionError")
    ELSE IF Len(f.v.params.v) # 1 THEN Raise(m, "AssertionError")
    ELSE LET cont   == DeepCopyStack(m.stack, m.envs)   \* Continuation(stack)
             id     == Len(m.conts) + 1
             newenv == Len(cont.envs) + 1
             heap   == EnvBind(Append(cont.envs, Environment(f.v.env)),
                               newenv, f.v.params.v[1].v, Cont(id))
         IN  [m EXCEPT !.conts = Append(m.conts, cont.stack),
                       !.envs  = heap,
                       !.stack = ReplaceTop(m.stack, Frame(f.v.body, newenv))]

ContG_NoRestore(m, id) == m

ContG_Consume(m, id) ==
    LET copy == DeepCopyStack(m.conts[id], m.envs)
    IN  [m EXCEPT !.stack = copy.stack, !.envs = copy.envs, !.conts[id] = <<>>]

\* the function g of _call_cc: the live stack becomes a copy of the snapshot
ContG(m, id) ==
    LET copy == DeepCopyStack(m.conts[id], m.envs)
    IN  [m EXCEPT !.stack = copy.stack, !.envs = copy.envs]

\* run(), done frame, built-in function (lines 295-301), with _apply
RunBuiltin(m) ==
    LET expr == Top(m.stack).expr.v
        f    == expr[1]
        args == Rest(expr)
    IN  CASE f.t = "fn" /\ f.v = "call/cc" ->
                IF Len(args) # 1 THEN Raise(m, "TypeError")
                ELSE call_cc(m, args[1])      \* value is None: no collapse
          [] f.t = "cont" ->
                IF Len(args) # 1 THEN Raise(m, "TypeError")
                ELSE Collapse(ContG(m, f.v), args[1])
          [] f.t = "fn" ->
                LET value == BuiltinApply(f.v, args)
                IN  IF IsErr(value) THEN Raise(m, value.v)
                    ELSE Collapse(m, value)
          [] OTHER -> Raise(m, "TypeError")   \* not callable

\* run(), first visit of a special form (lines 303-313)
RunSfNext(m) ==
    LET frame == Top(m.stack)
        plpos == SfNext(frame.expr.v, 1)
    IN  IF plpos > -1
        THEN PushSlot(m, m.stack, plpos, frame.env)
        ELSE [m EXCEPT !.stack[Len(m.stack)].done = TRUE]

\* BatchInterpreter.run, without the two counters
Run(m) ==
    LET frame == Top(m.stack)
        expr  == frame.expr
    IN  IF expr.t = "list"
        THEN IF expr.v = <<>>
             THEN [m EXCEPT !.ret = expr]
             ELSE IF frame.done
                  THEN IF InSpecialForms(expr.v[1]) THEN RunSpecialForm(m)
                       ELSE IF expr.v[1].t = "lam" THEN RunLambda(m)
                       ELSE RunBuiltin(m)
                  ELSE IF InSpecialForms(expr.v[1]) THEN RunSfNext(m)
                       ELSE PushSlot(m, m.stack, 0, frame.env)
        ELSE IF expr.t = "sym"
             THEN LET value == EnvGet(m.envs, frame.env, expr.v)
                  IN  IF value = None THEN Raise(m, "NameError")
                      ELSE Collapse(m, value)
             ELSE Collapse(m, expr)

(* ----------------------- the reader and the printer -------------------- *)

\* A Python str given to tokenize is a sequence of one-character strings;
\* a str built by the program (a token turned into a symbol, the output of
\* lisp_repr) is a string.

\* the str s, an argument of feed
Text(s) == [t |-> "text", v |-> s]

\* str.strip and str.lstrip remove these
Whitespace == {" ", "\t", "\n", "\r", "\f"}
\* a word of tokenize ends before one of these: "() \n\t\r"
Delimiters == {"(", ")", " ", "\n", "\t", "\r"}
Digits     == <<"0", "1", "2", "3", "4", "5", "6", "7", "8", "9">>

RECURSIVE LStrip(_)
LStrip(s) == IF s # <<>> /\ s[1] \in Whitespace THEN LStrip(Tail(s)) ELSE s

RECURSIVE RStrip(_)
RStrip(s) == IF s # <<>> /\ s[Len(s)] \in Whitespace
             THEN RStrip(SubSeq(s, 1, Len(s) - 1)) ELSE s

\* the length of the word at the start of s
RECURSIVE WordLen(_)
WordLen(s) == IF s # <<>> /\ s[1] \notin Delimiters THEN 1 + WordLen(Tail(s)) ELSE 0

RECURSIVE TokenizeLoop(_, _)
TokenizeLoop(s, tokens) ==
    IF s = <<>> THEN tokens
    ELSE IF s[1] \in {"(", ")"}
         THEN TokenizeLoop(LStrip(Tail(s)), Append(tokens, <<s[1]>>))
         ELSE LET n == WordLen(s)
              IN  TokenizeLoop(LStrip(SubSeq(s, n + 1, Len(s))),
                               Append(tokens, SubSeq(s, 1, n)))

\* tokenize: the tokens are sequences of characters
Tokenize(s) == TokenizeLoop(RStrip(LStrip(s)), <<>>)

\* the characters of a token, as the str the program goes on with
RECURSIVE Str(_)
Str(q) == IF q = <<>> THEN "" ELSE q[1] \o Str(Tail(q))

IsDigit(c)  == \E d \in DOMAIN Digits : Digits[d] = c
DigitVal(c) == (CHOOSE d \in DOMAIN Digits : Digits[d] = c) - 1

RECURSIVE DecimalVal(_)
DecimalVal(q) == IF q = <<>> THEN 0
                 ELSE 10 * DecimalVal(SubSeq(q, 1, Len(q) - 1)) + DigitVal(q[Len(q)])

\* re.match("^-?\d+$", token)
IsIntToken(token) ==
    LET digits == IF token # <<>> /\ token[1] = "-" THEN Tail(token) ELSE token
    IN  digits # <<>> /\ \A i \in DOMAIN digits : IsDigit(digits[i])

\* convert_token
ConvertToken(token) ==
    IF IsIntToken(token)
    THEN IF token[1] = "-" THEN Int_(0 - DecimalVal(Tail(token)))
         ELSE Int_(DecimalVal(token))
    ELSE IF token = <<"#", "t">> THEN Bool_(TRUE)
    ELSE IF token = <<"#", "f">> THEN Bool_(FALSE)
    ELSE Sym(Str(token))

\* the loop of parse from token i on; expr_stack holds the open lists
RECURSIVE ParseLoop(_, _, _)
ParseLoop(tokens, i, expr_stack) ==
    IF i > Len(tokens)
    THEN IF expr_stack = <<>> THEN Err("IndexError") ELSE List_(Last(expr_stack))
    ELSE IF tokens[i] = <<"(">>
    THEN ParseLoop(tokens, i + 1, Append(expr_stack, <<>>))
    ELSE IF tokens[i] = <<")">>
    THEN IF expr_stack = <<>> THEN Err("IndexError")
         ELSE LET last_expr == List_(Last(expr_stack))
                  rest      == Pop(expr_stack)
              IN  IF rest # <<>>
                  THEN ParseLoop(tokens, i + 1,
                           [rest EXCEPT ![Len(rest)] = Append(@, last_expr)])
                  ELSE last_expr
    ELSE LET ctoken == ConvertToken(tokens[i])
         IN  IF expr_stack # <<>>
             THEN ParseLoop(tokens, i + 1,
                      [expr_stack EXCEPT ![Len(expr_stack)] = Append(@, ctoken)])
             ELSE ctoken

\* parse
Parse(tokens) == ParseLoop(tokens, 1, <<>>)

RECURSIVE NatRepr(_)
NatRepr(n) == IF n < 10 THEN Digits[n + 1]
              ELSE NatRepr(n \div 10) \o Digits[(n % 10) + 1]

\* repr of an int; a bool is an int whose repr is True or False
IntRepr(x) ==
    IF x.t = "bool" THEN (IF x.v THEN "True" ELSE "False")
    ELSE IF x.v < 0 THEN "-" \o NatRepr(0 - x.v) ELSE NatRepr(x.v)

\* ' '.join(strs)
RECURSIVE Join(_)
Join(strs) ==
    IF strs = <<>> THEN ""
    ELSE IF Len(strs) = 1 THEN strs[1]
    ELSE strs[1] \o " " \o Join(Tail(strs))

\* lisp_repr, its tests in the order of the code: isinstance(obj, int) is
\* true of a bool and comes before the test for bool
RECURSIVE LispRepr(_)
LispRepr(obj) ==
    IF obj.t = "list"
    THEN "(" \o Join([i \in DOMAIN obj.v |-> LispRepr(obj.v[i])]) \o ")"
    ELSE IF obj.t = "sym" THEN obj.v
    ELSE IF IsNum(obj) THEN IntRepr(obj)
    ELSE IF obj.t = "fn" THEN "<lambda:" \o obj.v \o ">"
    ELSE IF obj.t = "cont" THEN "<lambda:<cont>>"
    ELSE IF obj.t = "lam" THEN "<lambda>"
    ELSE IF obj.t = "bool" THEN (IF obj.v THEN "#t" ELSE "#f")
    ELSE IF obj.t = "ph" THEN "$$"
    ELSE "ValueError"

\* BatchInterpreter.call_stack_repr
CallStackRepr(stk) == Join([i \in DOMAIN stk |-> LispRepr(stk[i].expr)])

(* ------------------------------ scripts -------------------------------- *)

\* A script is the sequence of expression trees a driver feeds to one
\* interpreter (the lines typed at console1.py, the evals of one test).

App(q)           == List_(q)
Call1(f, a)      == List_(<<f, a>>)
Call2(f, a, b)   == List_(<<f, a, b>>)
Lam(params, body) ==
    List_(<<Sym("lambda"), List_([i \in DOMAIN params |-> Sym(params[i])]), body>>)
Define(name, e)  == List_(<<Sym("define"), Sym(name), e>>)
If(c, a, b)      == List_(<<Sym("if"), c, a, b>>)

MaxLit == 1
MaxN   == 4

\* integer arithmetic: literals and binary calls of + - *, nested twice
ArithOps == {"+", "-", "*"}
Lits     == {Int_(k) : k \in (-1)..MaxLit}
Arith1   == Lits \cup {Call2(Sym(op), a, b) : op \in ArithOps, a \in Lits, b \in Lits}
Arith2   == Arith1 \cup {Call2(Sym(op), a, b) : op \in ArithOps, a \in Arith1, b \in Arith1}
ArithScripts == {<<e>> : e \in Arith2}

\* test_recursion
NaiveFacDef ==
    Define("fac", Lam(<<"n">>,
        If(Call2(Sym("="), Sym("n"), Int_(1)),
           Int_(1),
           Call2(Sym("*"), Sym("n"),
                 Call1(Sym("fac"), Call2(Sym("-"), Sym("n"), Int_(1)))))))
NaiveFacScript(n) == <<NaiveFacDef, Call1(Sym("fac"), Int_(n))>>

\* test_tail_recursion
TailFacDef ==
    Define("fac", Lam(<<"n">>,
        List_(<<Sym("begin"),
                Define("fac-aux", Lam(<<"n", "acc">>,
                    If(Call2(Sym("="), Sym("n"), Int_(1)),
                       Sym("acc"),
                       List_(<<Sym("fac-aux"),
                               Call2(Sym("-"), Sym("n"), Int_(1)),
                               Call2(Sym("*"), Sym("acc"), Sym("n"))>>)))),
                List_(<<Sym("fac-aux"), Sym("n"), Int_(1)>>)>>)))
TailFacScript(n) == <<TailFacDef, Call1(Sym("fac"), Int_(n))>>

FacScripts == {NaiveFacScript(n) : n \in 1..MaxN} \cup {TailFacScript(n) : n \in 1..MaxN}

\* the worked examples of the tests: (+ 1 2) and (+ (+ 1 2) (+ 3 4))
SimpleCall == Call2(Sym("+"), Int_(1), Int_(2))
ArithExample ==
    Call2(Sym("+"), Call2(Sym("+"), Int_(1), Int_(2)), Call2(Sym("+"), Int_(3), Int_(4)))

\* the empty list, alone and as a sub-expression
EmptyListScripts ==
    { <<List_(<<>>)>>,
      <<Call1(Sym("list"), List_(<<>>))>>,
      <<Call2(Sym("+"), Int_(1), List_(<<>>))>>,
      <<If(List_(<<>>), Int_(1), Int_(2))>> }

\* (call/cc (lambda (k) body)) in a context; each body is listed with the
\* value the call/cc expression must yield
CallCCExpr(body) == Call1(Sym("call/cc"), Lam(<<"k">>, body))
KCall(e)     == Call1(Sym("k"), e)
CCBodies ==
    << [body |-> Int_(3), val |-> Int_(3)],
       [body |-> Call2(Sym("+"), Int_(1), Int_(2)), val |-> Int_(3)],
       [body |-> KCall(Int_(2)), val |-> Int_(2)],
       [body |-> KCall(Call2(Sym("+"), Int_(1), Int_(1))), val |-> Int_(2)],
       [body |-> Call2(Sym("+"), Int_(1), KCall(Int_(2))), val |-> Int_(2)],
       [body |-> Call2(Sym("list"), KCall(Int_(2)), Sym("bogus")), val |-> Int_(2)],
       [body |-> List_(<<Sym("begin"), KCall(Int_(2)), Sym("bogus")>>), val |-> Int_(2)] >>
\* context c around the expression h, and what it yields when h yields x
CCContexts == 1..4
CCContext(c, h) ==
    CASE c = 1 -> h
      [] c = 2 -> Call2(Sym("+"), Int_(3), h)
      [] c = 3 -> List_(<<Sym("list"), Int_(1), h, Int_(7)>>)
      [] c = 4 -> List_(<<Sym("begin"), Int_(0), h>>)
CCExpected(c, x) ==
    CASE c = 1 -> x
      [] c = 2 -> Int_(3 + x.v)
      [] c = 3 -> List_(<<Int_(1), x, Int_(7)>>)
      [] c = 4 -> x
CCScript(c, b) == <<CCContext(c, CallCCExpr(CCBodies[b].body))>>
CallCCScripts == {CCScript(c, b) : c \in CCContexts, b \in DOMAIN CCBodies}

\* (if c a b) whose untaken branch is the unbound name bogus; each
\* condition is listed with the truth value Python gives its value
IfConds ==
    << [c |-> Bool_(TRUE), truth |-> TRUE],
       [c |-> Bool_(FALSE), truth |-> FALSE],
       [c |-> Int_(1), truth |-> TRUE],
       [c |-> Int_(0), truth |-> FALSE],
       [c |-> Sym("magic"), truth |-> TRUE],
       [c |-> Call2(Sym("="), Int_(1), Int_(1)), truth |-> TRUE],
       [c |-> Call2(Sym("="), Int_(1), Int_(2)), truth |-> FALSE],
       [c |-> List_(<<Sym("list")>>), truth |-> FALSE],
       [c |-> Call1(Sym("list"), Int_(0)), truth |-> TRUE] >>
IfBranches ==
    << [e |-> Int_(4), val |-> Int_(4)],
       [e |-> Call2(Sym("+"), Int_(1), Int_(2)), val |-> Int_(3)],
       [e |-> Call2(Sym("+"), Int_(2), Int_(3)), val |-> Int_(5)],
       [e |-> If(Bool_(FALSE), Sym("bogus"), Int_(6)), val |-> Int_(6)] >>
IfScript(c, b) ==
    IF IfConds[c].truth
    THEN <<If(IfConds[c].c, IfBranches[b].e, Sym("bogus"))>>
    ELSE <<If(IfConds[c].c, Sym("bogus"), IfBranches[b].e)>>
IfScripts == {IfScript(c, b) : c \in DOMAIN IfConds, b \in DOMAIN IfBranches}

\* test_eval_lambda: a closure over a global that is redefined before the
\* call, and a closure over the parameter of an enclosing call
RedefScript(x) ==
    << Define("a", Int_(1)),
       Define("f", Lam(<<"x">>, Call2(Sym("+"), Sym("a"), Sym("x")))),
       Define("a", Int_(5)),
       Call1(Sym("f"), Int_(x)) >>
AddNDef ==
    Define("add-n", Lam(<<"n">>, Lam(<<"x">>, Call2(Sym("+"), Sym("x"), Sym("n")))))
AddNScript(n, x) == <<AddNDef, Call1(Call1(Sym("add-n"), Int_(n)), Int_(x))>>
ClosureScripts ==
    {RedefScript(x) : x \in 0..MaxLit}
    \cup {AddNScript(n, x) : n \in 0..MaxLit, x \in 0..MaxLit}
    \cup {AddNScript(4, 5)}

\* (define name e) followed by a lookup of the name; each e is listed with
\* the value it evaluates to
DefineValues ==
    << [e |-> Int_(4), val |-> Int_(4)],
       [e |-> Call2(Sym("+"), Int_(1), Int_(2)), val |-> Int_(3)],
       [e |-> Sym("magic"), val |-> Int_(42)],
       [e |-> Call2(Sym("list"), Int_(1), Bool_(TRUE)), val |-> List_(<<Int_(1), Bool_(TRUE)>>)],
       [e |-> CallCCExpr(Int_(3)), val |-> Int_(3)],
       [e |-> CallCCExpr(KCall(Int_(5))), val |-> Int_(5)] >>
DefineScript(d) == <<Define("z", DefineValues[d].e), Sym("z")>>
DefineScripts ==
    {DefineScript(d) : d \in DOMAIN DefineValues}
    \cup { <<Call1(Sym("list"), Define("x", Int_(4)))>> }

\* the quote, eval and apply lines of test_eval
Quote(e) == List_(<<Sym("quote"), e>>)
QuotedExprs == {Sym("x"), List_(<<Int_(1), Int_(2), Int_(3)>>)}
QuoteScripts == {<<Quote(e)>> : e \in QuotedExprs}
ApplyEval ==
    << [e   |-> List_(<<Sym("apply"), Sym("+"), Call2(Sym("list"), Int_(3), Sym("magic"))>>),
        val |-> Int_(45)],
       [e   |-> List_(<<Sym("apply"), Sym("+"), Quote(List_(<<Int_(1), Int_(2)>>))>>),
        val |-> Int_(3)],
       [e   |-> Call1(Sym("eval"), Quote(Call2(Sym("+"), Int_(10), Int_(20)))),
        val |-> Int_(30)],
       [e   |-> Call1(Sym("eval"), Int_(7)), val |-> Int_(7)] >>
ApplyEvalScripts == {<<ApplyEval[i].e>> : i \in DOMAIN ApplyEval}

\* calls of list, nested, whose value is a list of values (the last one
\* with a begin as an argument)
ListScripts ==
    { <<List_(<<Sym("list"), Int_(1), List_(<<Sym("list"), Int_(2), List_(<<Sym("list")>>)>>)>>)>>,
      <<Call2(Sym("list"), List_(<<Sym("list")>>), Bool_(TRUE))>>,
      <<Call2(Sym("list"), CallCCExpr(KCall(Int_(2))), Call2(Sym("+"), Int_(1), Int_(2)))>>,
      <<Call2(Sym("list"), Int_(1), List_(<<Sym("begin"), Int_(2), Call2(Sym("+"), Int_(1), Int_(2))>>))>> }

\* closures applied to the wrong number of arguments, and call/cc given
\* something else than a closure of one parameter
IdLam == Lam(<<"x">>, Sym("x"))
ArityScripts ==
    { <<List_(<<IdLam>>)>>,
      <<List_(<<IdLam, Int_(1), Int_(2)>>)>>,
      <<List_(<<Lam(<<>>, Int_(1)), Int_(2)>>)>>,
      <<List_(<<Lam(<<>>, Int_(1))>>)>>,
      <<Call2(Sym("+"), Int_(1), List_(<<IdLam>>))>>,
      <<Define("f", Lam(<<"a", "b">>, Sym("a"))), Call1(Sym("f"), Int_(1))>> }
BadCallCCScripts ==
    { <<Call1(Sym("call/cc"), Int_(3))>>,
      <<Call1(Sym("call/cc"), Sym("+"))>>,
      <<Call1(Sym("call/cc"), Lam(<<"a", "b">>, Sym("a")))>>,
      <<Call1(Sym("call/cc"), Lam(<<>>, Int_(1)))>>,
      <<Call2(Sym("+"), Int_(1), Call1(Sym("call/cc"), Sym("magic")))>> }

\* an if without its else branch, (if c a), and without both, (if c)
ShortIfScript(c, b) == <<List_(<<Sym("if"), IfConds[c].c, IfBranches[b].e>>)>>
BareIfScript(c)     == <<List_(<<Sym("if"), IfConds[c].c>>)>>
MalformedIfScripts ==
    {ShortIfScript(c, b) : c \in DOMAIN IfConds, b \in DOMAIN IfBranches}
    \cup {BareIfScript(c) : c \in DOMAIN IfConds}

\* the lines typed at console1.py: the tokens of an expression, laid out
\* with whitespace before, between and after them
SourceTokens ==
    <<
       \* 42
       << <<"4", "2">> >>,
       \* -5
       << <<"-", "5">> >>,
       \* 0
       << <<"0">> >>,
       \* x
       << <<"x">> >>,
       \* #t
       << <<"#", "t">> >>,
       \* #f
       << <<"#", "f">> >>,
       \* magic
       << <<"m", "a", "g", "i", "c">> >>,
       \* ()
       << <<"(">>, <<")">> >>,
       \* (+ 1 2)
       << <<"(">>, <<"+">>, <<"1">>, <<"2">>, <<")">> >>,
       \* (if #t 1 2)
       << <<"(">>, <<"i", "f">>, <<"#", "t">>, <<"1">>, <<"2">>, <<")">> >>,
       \* (list 1 (list #f) ())
       << <<"(">>, <<"l", "i", "s", "t">>, <<"1">>, <<"(">>, <<"l", "i", "s", "t">>, <<"#", "f">>, <<")">>, <<"(">>, <<")">>, <<")">> >>,
       \* (define x 10)
       << <<"(">>, <<"d", "e", "f", "i", "n", "e">>, <<"x">>, <<"1", "0">>, <<")">> >>,
       \* (lambda (x) x)
       << <<"(">>, <<"l", "a", "m", "b", "d", "a">>, <<"(">>, <<"x">>, <<")">>, <<"x">>, <<")">> >>,
       \* (a (b c) ())
       << <<"(">>, <<"a">>, <<"(">>, <<"b">>, <<"c">>, <<")">>, <<"(">>, <<")">>, <<")">> >>,
       \* (= 10 -3)
       << <<"(">>, <<"=">>, <<"1", "0">>, <<"-", "3">>, <<")">> >>,
       \* (call/cc (lambda (k) (k 1)))
       << <<"(">>, <<"c", "a", "l", "l", "/", "c", "c">>, <<"(">>, <<"l", "a", "m", "b", "d", "a">>, <<"(">>, <<"k">>, <<")">>, <<"(">>, <<"k">>, <<"1">>, <<")">>, <<")">>, <<")">> >>,
       \* ((lambda (x) x) 7)
       << <<"(">>, <<"(">>, <<"l", "a", "m", "b", "d", "a">>, <<"(">>, <<"x">>, <<")">>, <<"x">>, <<")">>, <<"7">>, <<")">> >>
    >>
\* a layout: the whitespace before the first token, between two tokens,
\* after "(" and before ")", and after the last token
Pads ==
    << [lead |-> <<>>,     sep |-> <<" ">>,        tight |-> <<>>,     trail |-> <<>>],
       [lead |-> <<" ">>,  sep |-> <<" ", " ">>,   tight |-> <<" ">>,  trail |-> <<"\n">>],
       [lead |-> <<"\t">>, sep |-> <<"\n">>,       tight |-> <<>>,     trail |-> <<" ">>],
       [lead |-> <<>>,     sep |-> <<"\r", "\n">>, tight |-> <<"\t">>, trail |-> <<" ", " ">>] >>
RECURSIVE LayoutFrom(_, _, _)
LayoutFrom(tokens, i, pad) ==
    IF i > Len(tokens) THEN <<>>
    ELSE tokens[i]
         \o (IF i = Len(tokens) THEN pad.trail
             ELSE IF tokens[i] = <<"(">> \/ tokens[i + 1] = <<")">> THEN pad.tight
             ELSE pad.sep)
         \o LayoutFrom(tokens, i + 1, pad)
Layout(tokens, pad) == pad.lead \o LayoutFrom(tokens, 1, pad)
TextScript(i, p) == <<Text(Layout(SourceTokens[i], Pads[p]))>>
TextScripts == {TextScript(i, p) : i \in DOMAIN SourceTokens, p \in DOMAIN Pads}

\* a global x, the closure f = (lambda (x) x), and an expression in which a
\* call of f is followed by a slot that uses or defines a global; each is
\* listed with its value under lexical scoping
ScopeBodies ==
    << [e   |-> Call2(Sym("+"), Call1(Sym("f"), Int_(1)), Sym("x")),
        val |-> Int_(11)],
       [e   |-> List_(<<Sym("list"), Call1(Sym("f"), Int_(1)), Sym("x"), Sym("x")>>),
        val |-> List_(<<Int_(1), Int_(10), Int_(10)>>)],
       [e   |-> List_(<<Sym("begin"), Call1(Sym("f"), Int_(1)),
                        Define("y", Int_(3)), Sym("y")>>),
        val |-> Int_(3)],
       [e   |-> Call2(Sym("+"), Sym("x"), Call1(Sym("f"), Int_(1))),
        val |-> Int_(11)] >>
ScopeScript(b) ==
    << Define("x", Int_(10)), Define("f", IdLam), ScopeBodies[b].e >>
ScopeScripts == {ScopeScript(b) : b \in DOMAIN ScopeBodies}

\* a top-level define that is executed after a continuation was invoked,
\* followed by a lookup of the name
ResumeDefineScript ==
    << List_(<<Sym("begin"), CallCCExpr(KCall(Int_(1))), Define("z", Int_(5)), Int_(0)>>),
       Sym("z") >>

\* a continuation bound at top level and invoked in two later feeds
ReinvokeScript ==
    << Define("kk", CallCCExpr(Sym("k"))),
       Call1(Sym("kk"), Int_(5)),
       Call1(Sym("kk"), Int_(7)) >>
ContinuationScripts == {ResumeDefineScript, ReinvokeScript}

Scripts ==
    ArithScripts \cup {<<SimpleCall>>, <<ArithExample>>} \cup FacScripts \cup EmptyListScripts
    \cup CallCCScripts \cup IfScripts \cup ClosureScripts \cup DefineScripts
    \cup QuoteScripts \cup ApplyEvalScripts \cup ListScripts
    \cup ArityScripts \cup BadCallCCScripts \cup MalformedIfScripts
    \cup TextScripts \cup ScopeScripts \cup ContinuationScripts

(* ------------------------------- state --------------------------------- *)

VARIABLES
    call_stack,   \* self._call_stack
    envs,         \* the Environment objects; envs[TopEnv] is self._env
    conts,        \* the Continuation objects made by _call_cc
    num_calls,    \* self._num_calls
    max_depth,    \* self._max_depth
    result,       \* what the last run() returned (None: still running)
    error,        \* the exception the last run() raised ("": none)
    script,       \* the driver's input
    fed,          \* how many expressions of the script have been fed
    shown         \* the last line console1.py printed ("": none)

vars == <<call_stack, envs, conts, num_calls, max_depth, result, error, script, fed, shown>>

\* BatchInterpreter.__init__
Init ==
    /\ call_stack = <<>>
    /\ envs = <<ToplevelEnv>>
    /\ conts = <<>>
    /\ num_calls = 0
    /\ max_depth = 0
    /\ result = None
    /\ error = ""
    /\ script \in Scripts
    /\ fed = 0
    /\ shown = ""

Feed_KeepStack ==
    /\ fed < Len(script)
    /\ script[fed + 1].t # "text"
    /\ call_stack' = Append(call_stack, Frame(script[fed + 1], TopEnv))
    /\ num_calls' = 0
    /\ result' = None
    /\ error' = ""
    /\ fed' = fed + 1
    /\ UNCHANGED <<envs, conts, max_depth, script, shown>>

\* BatchInterpreter._feed, with the next expression of the script
Feed ==
    /\ fed < Len(script)
    /\ script[fed + 1].t # "text"
    /\ call_stack' = <<Frame(script[fed + 1], TopEnv)>>
    /\ num_calls' = 0
    /\ result' = None
    /\ error' = ""
    /\ fed' = fed + 1
    /\ UNCHANGED <<envs, conts, max_depth, script, shown>>

\* BatchInterpreter.feed, with the next line of the script: tokenize, parse
\* and _feed; an exception of parse leaves the interpreter as it was
FeedText ==
    /\ fed < Len(script)
    /\ script[fed + 1].t = "text"
    /\ LET tree == Parse(Tokenize(script[fed + 1].v))
       IN  IF IsErr(tree)
           THEN /\ error' = tree.v
                /\ UNCHANGED <<call_stack, num_calls>>
           ELSE /\ call_stack' = <<Frame(tree, TopEnv)>>
                /\ num_calls' = 0
                /\ error' = ""
    /\ result' = None
    /\ fed' = fed + 1
    /\ UNCHANGED <<envs, conts, max_depth, script, shown>>

\* console1.py, line 23: print(bi.call_stack_repr()) before a step
ShowStack ==
    /\ fed > 0
    /\ script[fed].t = "text"
    /\ call_stack # <<>>
    /\ result = None
    /\ error = ""
    /\ shown' = CallStackRepr(call_stack)
    /\ UNCHANGED <<call_stack, envs, conts, num_calls, max_depth, result, error, script, fed>>

\* console1.py, line 26: print("=>", dollop.lisp_repr(result))
ShowResult ==
    /\ fed > 0
    /\ script[fed].t = "text"
    /\ result # None
    /\ shown' = "=> " \o LispRepr(result)
    /\ UNCHANGED <<call_stack, envs, conts, num_calls, max_depth, result, error, script, fed>>

Max(a, b) == IF a >= b THEN a ELSE b

\* one call of BatchInterpreter.run by a driver that stops at the first
\* result (eval, console1.py) or exception
RunStep ==
    /\ call_stack # <<>>
    /\ result = None
    /\ error = ""
    /\ LET m == Run([stack |-> call_stack, envs |-> envs, conts |-> conts,
                     ret |-> None, err |-> ""])
       IN  /\ call_stack' = m.stack
           /\ envs' = m.envs
           /\ conts' = m.conts
           /\ result' = m.ret
           /\ error' = m.err
    /\ num_calls' = num_calls + 1
    /\ max_depth' = Max(max_depth, Len(call_stack))
    /\ UNCHANGED <<script, fed, shown>>

Next == Feed \/ FeedText \/ RunStep \/ ShowStack \/ ShowResult

Spec == Init /\ [][Next]_vars

(* ------------------------------ properties ----------------------------- *)

RECURSIVE Fact(_)
Fact(n) == IF n <= 1 THEN 1 ELSE n * Fact(n - 1)

\* an integer expression evaluated by direct recursion over the tree
RECURSIVE DirectEval(_)
DirectEval(e) ==
    IF e.t = "int" THEN e.v
    ELSE LET op == e.v[1].v
             a  == DirectEval(e.v[2])
             b  == DirectEval(e.v[3])
         IN  CASE op = "+" -> a + b
               [] op = "-" -> a - b
               [] op = "*" -> a * b

Bound(name) == EnvGet(envs, TopEnv, name) # None

\* C1: run() returns a final value only when the stack holds exactly one
\* frame; a self-evaluating sub-expression, the empty list included, is
\* collapsed into its parent and is not the result of the whole evaluation.
C1_FinalValueOnlyAtRoot ==
    result # None => Len(call_stack) = 1

\* C2: (call/cc (lambda (k) body)) yields body's value when body does not
\* invoke k, and yields v when body invokes (k v): the frames pushed since
\* the capture are discarded (what follows (k v) in body is never evaluated)
\* and the surrounding expression goes on with v.
C2_CallCCEscape ==
    \A c \in CCContexts, b \in DOMAIN CCBodies :
        script = CCScript(c, b) =>
            /\ error = ""
            /\ \A i \in DOMAIN call_stack : call_stack[i].expr # Sym("bogus")
            /\ result # None => result = CCExpected(c, CCBodies[b].val)

C2_Witness ==
    /\ script = CCScript(2, 5)
    /\ conts # <<>>
    /\ result = Int_(5)

\* C3: for the accumulator-style factorial the stack depth at the start of
\* every step is at most 3, whatever n is, and (fac n) gives n!.
C3_TailRecursionBounded ==
    \A n \in 1..MaxN :
        script = TailFacScript(n) =>
            /\ Len(call_stack) <= 3
            /\ max_depth <= 3
            /\ (fed = 2 /\ Bound("fac")) => error = ""
            /\ (fed = 2 /\ result # None) => result = Int_(Fact(n))

C3_Witness ==
    /\ script = TailFacScript(MaxN)
    /\ fed = 2
    /\ result = Int_(Fact(MaxN))
    /\ max_depth = 3

\* C4: (if c a b) evaluates only the selected branch: the other branch never
\* becomes a frame's expression and no name in it is looked up, so an
\* unbound name there raises nothing and the result is the selected branch's.
C4_IfUntakenBranchNotEvaluated ==
    \A c \in DOMAIN IfConds, b \in DOMAIN IfBranches :
        script = IfScript(c, b) =>
            /\ error = ""
            /\ \A i \in DOMAIN call_stack : call_stack[i].expr # Sym("bogus")
            /\ result # None => result = IfBranches[b].val

C4_Witness ==
    /\ script = IfScript(1, 2)
    /\ result = Int_(3)

\* C5: a closure refers to its defining environment: the body sees the value
\* an outer variable has when the closure is called, not the one it had when
\* the closure was made, and a nested closure sees the parameter of the
\* enclosing call.
C5_ClosureCapturesByReference ==
    /\ \A x \in 0..MaxLit :
          (script = RedefScript(x) /\ fed = 4 /\ Bound("a") /\ Bound("f")) =>
              /\ error = ""
              /\ result # None => result = Int_(EnvGet(envs, TopEnv, "a").v + x)
    /\ \A n \in 0..4, x \in 0..5 :
          (script = AddNScript(n, x) /\ fed = 2 /\ Bound("add-n")) =>
              /\ error = ""
              /\ result # None => result = Int_(x + n)

C5_Witness ==
    /\ script = RedefScript(MaxLit)
    /\ fed = 4
    /\ EnvGet(envs, TopEnv, "a") = Int_(5)
    /\ result = Int_(5 + MaxLit)

\* C6: a define returns the "no value" marker, and after a top-level define
\* has returned, the name is bound to the evaluated value in the top-level
\* environment, where the frame of a later feed looks it up.
C6_DefineBindsAtTopLevel ==
    \A d \in DOMAIN DefineValues :
        (script = DefineScript(d) /\ fed = 1 /\ result # None) =>
            /\ result = Bool_(FALSE)
            /\ EnvGet(envs, TopEnv, "z") = DefineValues[d].val

\* C7: (quote e) yields e unevaluated, without an error and without a frame
\* for e.
C7_QuoteYieldsLiteral ==
    \A e \in QuotedExprs :
        script = <<Quote(e)>> =>
            /\ error = ""
            /\ result # None => result = e

\* C8: apply and eval are bound in the top-level environment: (apply f lst)
\* calls f with the elements of lst and (eval e) evaluates e.
C8_ApplyAndEvalBound ==
    \A i \in DOMAIN ApplyEval :
        script = <<ApplyEval[i].e>> =>
            /\ error = ""
            /\ result # None => result = ApplyEval[i].val

\* C9: stepping the engine to completion on an integer expression of + - *
\* returns what direct recursive evaluation of the expression gives.
C9_ArithmeticAgreesWithDirectEval ==
    (script \in ArithScripts \cup {<<ArithExample>>}) =>
        /\ error = ""
        /\ (fed = 1 /\ result # None) => result = Int_(DirectEval(script[1]))

C9_Witness ==
    /\ script = <<ArithExample>>
    /\ num_calls = 13
    /\ result = Int_(10)

\* C10: for the naive factorial the stack grows by one frame per pending
\* call: the depth never exceeds n + 2, the maximum depth seen at the start
\* of a step is n + 2 when (fac n) returns, and the result is n!.
C10_NaiveRecursionDepth ==
    \A n \in 1..MaxN :
        script = NaiveFacScript(n) =>
            /\ Len(call_stack) <= n + 2
            /\ (fed = 2 /\ Bound("fac")) => error = ""
            /\ (fed = 2 /\ result # None) =>
                  /\ result = Int_(Fact(n))
                  /\ max_depth = n + 2

C10_Witness ==
    /\ script = NaiveFacScript(MaxN)
    /\ fed = 2
    /\ result = Int_(Fact(MaxN))
    /\ max_depth = MaxN + 2

\* whether the Placeholder occurs in x, at any depth of a list
RECURSIVE HasPlaceholder(_)
HasPlaceholder(x) ==
    CASE x = PLACEHOLDER -> TRUE
      [] x.t = "list"    -> \E i \in DOMAIN x.v : HasPlaceholder(x.v[i])
      [] OTHER           -> FALSE

\* C11: the value run() returns is never the Placeholder, and when it is a
\* list no element of it, at any depth, is the Placeholder.
C11_NoPlaceholderInResult ==
    result # None => ~HasPlaceholder(result)

C11_Witness ==
    /\ result = List_(<<Int_(1), List_(<<Int_(2), List_(<<>>)>>)>>)
    /\ num_calls = 11

\* C12: a feed, in any state (nothing run yet, a run finished, an evaluation
\* under way), leaves exactly one frame on the stack, holding the new tree
\* (for a line of text, the tree parse makes of it),
\* the top-level environment and done = false, sets the call count to 0 and
\* changes no binding of the top-level environment.
C12_FeedResets ==
    [][fed' # fed =>
          LET tree == IF script[fed'].t = "text"
                      THEN Parse(Tokenize(script[fed'].v))
                      ELSE script[fed']
          IN  /\ call_stack' = <<[expr |-> tree, env |-> TopEnv, done |-> FALSE]>>
              /\ num_calls' = 0
              /\ envs'[TopEnv] = envs[TopEnv]]_vars

\* the second expression was fed while the first, (define z (call/cc ...)),
\* was under way: the continuation is captured, z is not bound yet
C12_Witness ==
    /\ script = DefineScript(5)
    /\ fed = 2
    /\ num_calls = 0
    /\ conts # <<>>
    /\ ~Bound("z")
    /\ call_stack = <<Frame(Sym("z"), TopEnv)>>

\* the frame about to be applied is a closure call whose argument count
\* differs from the closure's parameter count
ArityMismatch ==
    /\ call_stack # <<>> /\ result = None /\ error = ""
    /\ LET frame == Top(call_stack)
       IN  /\ frame.done
           /\ frame.expr.t = "list"
           /\ frame.expr.v[1].t = "lam"
           /\ Len(frame.expr.v) - 1 # Len(frame.expr.v[1].v.params.v)

\* the frame about to be applied calls call/cc with one argument that is not
\* a closure of one parameter
BadCallCC ==
    /\ call_stack # <<>> /\ result = None /\ error = ""
    /\ LET frame == Top(call_stack)
       IN  /\ frame.done
           /\ frame.expr.t = "list"
           /\ Len(frame.expr.v) = 2
           /\ frame.expr.v[1] = Fn("call/cc")
           /\ ~(/\ frame.expr.v[2].t = "lam"
                /\ Len(frame.expr.v[2].v.params.v) = 1)

\* C13: the step that applies a closure to a number of arguments other than
\* its parameter count, or call/cc to something else than a one-parameter
\* closure, raises an error: it returns no value, leaves the stack as it was
\* (no body frame), captures no continuation and creates no environment.
C13_ArityErrorAborts ==
    [][((ArityMismatch \/ BadCallCC) /\ fed' = fed) =>
          /\ error' # ""
          /\ result' = None
          /\ call_stack' = call_stack
          /\ conts' = conts
          /\ envs' = envs]_vars

C13_Witness ==
    /\ script = <<Call1(Sym("call/cc"), Lam(<<"a", "b">>, Sym("a")))>>
    /\ error = "AssertionError"
    /\ num_calls = 5
    /\ conts = <<>>
    /\ Len(call_stack) = 1 /\ Top(call_stack).done

\* C14: an if form that lacks one of its two branches, or both, never
\* produces a final value, whatever its condition evaluates to.
C14_MalformedIfAborts ==
    script \in MalformedIfScripts => result = None

\* C15: a line read by feed and printed back by call_stack_repr before any
\* step is the line with its whitespace normalized (one space between
\* tokens, none after "(" or before ")"): booleans print as #t and #f,
\* integers in decimal.
C15_RoundTrip ==
    \A i \in DOMAIN SourceTokens, p \in DOMAIN Pads :
        (script = TextScript(i, p) /\ num_calls = 0 /\ shown # "") =>
            shown = Str(Layout(SourceTokens[i], Pads[1]))

\* C16: the frames pushed for the slots of a frame carry that frame's
\* environment, so with x = 10 global and f = (lambda (x) x) a slot that
\* follows a call of f still sees the global x, and a define there binds in
\* the caller's environment: (+ (f 1) x) gives 11.
C16_SlotFramesCarryParentEnv ==
    \A b \in DOMAIN ScopeBodies :
        (/\ script = ScopeScript(b)
         /\ fed = 3
         /\ EnvGet(envs, TopEnv, "x") = Int_(10)
         /\ Bound("f")) =>
            /\ error = ""
            /\ result # None => result = ScopeBodies[b].val

\* the number of steps of an expression made of atoms and builtin calls
RECURSIVE StepCount(_)
StepCount(e) ==
    IF e.t = "list" /\ e.v # <<>>
    THEN LET sum[i \in 0..Len(e.v)] ==
                 IF i = 0 THEN 0 ELSE sum[i - 1] + StepCount(e.v[i])
         IN  2 + sum[Len(e.v)]
    ELSE 1

\* an evaluated slot of an arithmetic call: a number or a builtin function
EvaluatedSlot(x) == x.t \in {"int", "fn"}

\* the slots of the call frame f are evaluated from left to right: those
\* before the Placeholder are values, those after it are not evaluated yet
\* (the operator's symbol, a nested call), and f is done exactly when every
\* slot is a value
SlotsInOrder(f) ==
    LET q  == f.expr.v
        ph == {i \in DOMAIN q : q[i] = PLACEHOLDER}
    IN  /\ Cardinality(ph) <= 1
        /\ \A i \in ph :
              /\ \A j \in 1..(i - 1) : EvaluatedSlot(q[j])
              /\ \A j \in (i + 1)..Len(q) : q[j].t \in {"int", "list"}
        /\ f.done <=> \A j \in DOMAIN q : EvaluatedSlot(q[j])

\* C17: a builtin call evaluates its slots in the order 0, 1, ..., n with at
\* most one Placeholder per frame, is marked done by the step that fills its
\* last slot and is applied by the next step; an atom takes 1 step and a call
\* 2 steps more than its elements together: 5 for (+ 1 2), 13 for
\* (+ (+ 1 2) (+ 3 4)).
C17_SlotOrderAndStepCount ==
    (script \in ArithScripts \cup {<<SimpleCall>>, <<ArithExample>>}) =>
        /\ error = ""
        /\ \A i \in DOMAIN call_stack :
              call_stack[i].expr.t = "list" =>
                  /\ SlotsInOrder(call_stack[i])
                  /\ i < Len(call_stack) => PLACEHOLDER \in {call_stack[i].expr.v[j] :
                                                           j \in DOMAIN call_stack[i].expr.v}
        /\ result # None => num_calls = StepCount(script[1])
        /\ num_calls <= StepCount(script[1])
        /\ StepCount(SimpleCall) = 5 /\ StepCount(ArithExample) = 13

C17_Witness ==
    /\ script = <<SimpleCall>>
    /\ num_calls = 5
    /\ result = Int_(3)

\* the frame about to be applied is a done begin, a done if, or a done call
\* of a closure
TailPosition ==
    /\ call_stack # <<>> /\ result = None /\ error = ""
    /\ LET frame == Top(call_stack)
       IN  /\ frame.done
           /\ frame.expr.t = "list"
           /\ \/ frame.expr.v[1] \in {Sym("begin"), Sym("if")}
              \/ frame.expr.v[1].t = "lam"

\* C18: the step that applies a done begin, a done if or a done closure call
\* and raises no error replaces the top frame: the depth is unchanged, the
\* frames below are unchanged, and the new top frame, not done, holds the
\* last expression of the begin or the selected branch of the if with the
\* same environment, or the closure's body with a new environment whose
\* parent is the closure's.
C18_TailReplacesFrame ==
    [][(TailPosition /\ num_calls' = num_calls + 1 /\ error' = "") =>
          LET frame == Top(call_stack)
              expr  == frame.expr.v
              new   == Top(call_stack')
          IN  /\ result' = None
              /\ Len(call_stack') = Len(call_stack)
              /\ Pop(call_stack') = Pop(call_stack)
              /\ ~new.done
              /\ expr[1] = Sym("begin") =>
                    new.expr = Last(expr) /\ new.env = frame.env
              /\ expr[1] = Sym("if") =>
                    /\ new.expr = IF Truthy(expr[2]) THEN expr[3] ELSE expr[4]
                    /\ new.env = frame.env
              /\ expr[1].t = "lam" =>
                    /\ new.expr = expr[1].v.body
                    /\ new.env = Len(envs) + 1
                    /\ Len(envs') = Len(envs) + 1
                    /\ envs'[new.env].parent = expr[1].v.env]_vars

\* (if #t (+ 1 2) bogus) after the step that applied the if: the branch
\* stands where the if stood
C18_Witness ==
    /\ script = IfScript(1, 2)
    /\ num_calls = 3
    /\ call_stack = <<Frame(IfBranches[2].e, TopEnv)>>

\* C19: a continuation holds copies of the frames and of their expression
\* trees, not of the environments: the root frame refers to the top-level
\* environment also after (k v) has restored the stack, so the define of z
\* that follows the resumption binds z at top level, where a later feed
\* finds it.
C19_ContinuationSharesEnvs ==
    /\ call_stack # <<>> => call_stack[1].env = TopEnv
    /\ (script = ResumeDefineScript /\ fed = 1 /\ result # None) =>
          EnvGet(envs, TopEnv, "z") = Int_(5)

\* a value and a stack without the identities of the Environment objects
\* they refer to (a copy refers to copies)
RECURSIVE Shape(_)
Shape(x) ==
    CASE x.t = "lam"  -> Lambda(x.v.params, x.v.body, 0)
      [] x.t = "list" -> List_([i \in DOMAIN x.v |-> Shape(x.v[i])])
      [] OTHER        -> x
StackShape(stk) == [i \in DOMAIN stk |-> [expr |-> Shape(stk[i].expr), done |-> stk[i].done]]

\* the frame about to be applied calls a continuation with one argument
Invoking ==
    /\ call_stack # <<>> /\ result = None /\ error = ""
    /\ LET frame == Top(call_stack)
       IN  /\ frame.done
           /\ frame.expr.t = "list"
           /\ Len(frame.expr.v) = 2
           /\ frame.expr.v[1].t = "cont"

\* C20: a snapshot is never changed, neither by the steps that follow the
\* capture nor by invoking the continuation; when it is made its frames and
\* trees are those of the live stack, and every invocation (k v) leaves the
\* stack that collapsing v into the snapshot gives.
C20_SnapshotIndependent ==
    [][/\ \A i \in DOMAIN conts : i \in DOMAIN conts' /\ conts'[i] = conts[i]
       /\ Len(conts') > Len(conts) =>
             /\ Len(conts') = Len(conts) + 1
             /\ StackShape(conts'[Len(conts')]) = StackShape(call_stack)
       /\ (Invoking /\ num_calls' = num_calls + 1) =>
             LET id       == Top(call_stack).expr.v[1].v
                 expected == Collapse([stack |-> conts[id], envs |-> envs,
                                       conts |-> conts, ret |-> None, err |-> ""],
                                      Top(call_stack).expr.v[2])
             IN  /\ error' = ""
                 /\ result' = expected.ret
                 /\ StackShape(call_stack') = StackShape(expected.stack)]_vars

\* the continuation bound to kk has been invoked in the second and in the
\* third feed, each time finishing the define it was captured in (the heap
\* holds the environment copied at the capture, the environment of the
\* closure call and one more copy per invocation)
C20_Witness ==
    /\ script = ReinvokeScript
    /\ fed = 3
    /\ num_calls = 5
    /\ result = Bool_(FALSE)
    /\ Len(conts) = 1
    /\ Len(envs) = 5

\* the slots of the frame f that hold the Placeholder
PlaceholderSlots(f) ==
    IF f.expr.t = "list"
    THEN {j \in DOMAIN f.expr.v : f.expr.v[j] = PLACEHOLDER}
    ELSE {}

\* C21: between steps every frame below the top holds a list with exactly
\* one Placeholder among its slots and is not done, and the top frame's
\* expression has no Placeholder among its slots; this holds through tail
\* replacement, closure calls, the capture of a continuation and its
\* invocation.
C21_OnePlaceholderPerPendingFrame ==
    \A i \in DOMAIN call_stack :
        IF i < Len(call_stack)
        THEN /\ call_stack[i].expr.t = "list"
             /\ Cardinality(PlaceholderSlots(call_stack[i])) = 1
             /\ ~call_stack[i].done
        ELSE /\ call_stack[i].expr # PLACEHOLDER
             /\ PlaceholderSlots(call_stack[i]) = {}

\* (list 1 (call/cc (lambda (k) (+ 1 (k 2)))) 7) after (k 2): the restored
\* list frame holds 2 where the call/cc stood and waits for its last slot
C21_Witness ==
    /\ script = CCScript(3, 5)
    /\ conts # <<>>
    /\ Len(call_stack) = 2
    /\ call_stack[1].expr = List_(<<Fn("list"), Int_(1), Int_(2), PLACEHOLDER>>)
    /\ call_stack[2].expr = Int_(7)

\* the bodies of the lambda forms written in the tree e
RECURSIVE LambdaBodies(_)
LambdaBodies(e) ==
    IF e.t = "list"
    THEN (IF Len(e.v) >= 3 /\ e.v[1] = Sym("lambda") THEN {e.v[3]} ELSE {})
         \cup UNION {LambdaBodies(e.v[i]) : i \in DOMAIN e.v}
    ELSE {}

\* the bodies of the lambda forms of the script
SourceBodies ==
    UNION {LambdaBodies(IF script[i].t = "text"
                        THEN Parse(Tokenize(script[i].v))
                        ELSE script[i]) : i \in DOMAIN script}

\* the closures in the value x
RECURSIVE ClosuresIn(_)
ClosuresIn(x) ==
    CASE x.t = "lam"  -> {x}
      [] x.t = "list" -> UNION {ClosuresIn(x.v[i]) : i \in DOMAIN x.v}
      [] OTHER        -> {}

\* the closures of a state: in the environments, the frames, the snapshots
\* and the returned value
ClosuresOf(stk, heap, snaps, ret) ==
    UNION {ClosuresIn(stk[i].expr) : i \in DOMAIN stk}
    \cup UNION {UNION {ClosuresIn(heap[e].data[n]) : n \in DOMAIN heap[e].data} :
                   e \in DOMAIN heap}
    \cup UNION {UNION {ClosuresIn(snaps[c][i].expr) : i \in DOMAIN snaps[c]} :
                   c \in DOMAIN snaps}
    \cup ClosuresIn(ret)

\* the closure whose body the next step installs: the operator of a done
\* closure call, or the argument of a done call of call/cc
Invoked ==
    LET frame == Top(call_stack)
    IN  IF frame.expr.v[1].t = "lam" THEN frame.expr.v[1] ELSE frame.expr.v[2]

Invocation ==
    /\ call_stack # <<>> /\ result = None /\ error = ""
    /\ LET frame == Top(call_stack)
       IN  /\ frame.done
           /\ frame.expr.t = "list"
           /\ \/ frame.expr.v[1].t = "lam"
              \/ /\ frame.expr.v[1] = Fn("call/cc")
                 /\ Len(frame.expr.v) = 2
                 /\ frame.expr.v[2].t = "lam"

====
